---- MODULE Spec2Model ----
(***************************************************************************)
(* Model of lambda/lambda_function.py: the HTTP handler that maps          *)
(* GET / POST / PUT / DELETE / OPTIONS onto one DynamoDB table of items.   *)
(*                                                                         *)
(* A Python str is a sequence of one-character strings, so that upper(),   *)
(* strip(), split() and join() are computed rather than assumed.  A Python *)
(* value is a record tagged by its type (field t).  Fixed message texts of *)
(* the source are "lit" values; the Japanese ones are written as ASCII     *)
(* glosses.                                                                *)
(***************************************************************************)
EXTENDS Integers, Sequences, FiniteSets, TLC

VARIABLES
    store,      \* the table: key (str) -> item (attribute name -> value)
    inv,        \* per invocation slot: where lambda_handler stands
    created,    \* keys for which a POST answered 200 "created" and no DELETE has succeeded since
    posted      \* key -> the body of the POST that created it, until a PUT or DELETE calls the table on the key

vars == <<store, inv, created, posted>>

----------------------------------------------------------------------------
(* Bounds of the model *)

NumProcs == 2       \* invocation slots that may run concurrently
PageSize == 1       \* items the table returns per scan page

Procs == 1..NumProcs

----------------------------------------------------------------------------
(* Python values *)

PyNone == [t |-> "none"]
PyStr(s) == [t |-> "str", s |-> s]
PyLit(text) == [t |-> "lit", text |-> text]
PyNum(n) == [t |-> "num", n |-> n]
PyDict(m) == [t |-> "dict", m |-> m]
PyList(l) == [t |-> "list", l |-> l]

\* bool(v): None, "", 0, {} and [] are falsy
Truthy(v) ==
    CASE v.t = "none" -> FALSE
      [] v.t = "str"  -> v.s # <<>>
      [] v.t = "lit"  -> v.text # ""
      [] v.t = "num"  -> v.n # 0
      [] v.t = "dict" -> DOMAIN v.m # {}
      [] v.t = "list" -> v.l # <<>>
      [] OTHER        -> TRUE

\* x or y
Or(x, y) == IF Truthy(x) THEN x ELSE y

IsDict(v) == v.t = "dict"

\* k in body
In(k, body) == k \in DOMAIN body.m

\* dict.get(k): None when the key is missing
Get(d, k) == IF k \in DOMAIN d.m THEN d.m[k] ELSE PyNone

LowerAlphabet ==
    <<"a","b","c","d","e","f","g","h","i","j","k","l","m",
      "n","o","p","q","r","s","t","u","v","w","x","y","z">>
UpperAlphabet ==
    <<"A","B","C","D","E","F","G","H","I","J","K","L","M",
      "N","O","P","Q","R","S","T","U","V","W","X","Y","Z">>

UpperChar(c) ==
    IF \E k \in 1..26 : LowerAlphabet[k] = c
    THEN UpperAlphabet[CHOOSE k \in 1..26 : LowerAlphabet[k] = c]
    ELSE c

\* str.upper()
Upper(s) == [k \in 1..Len(s) |-> UpperChar(s[k])]

Whitespace == {" ", "\t", "\n", "\r"}

RECURSIVE LStrip(_)
LStrip(s) == IF s = <<>> \/ s[1] \notin Whitespace THEN s ELSE LStrip(Tail(s))

RECURSIVE RStrip(_)
RStrip(s) ==
    IF s = <<>> \/ s[Len(s)] \notin Whitespace THEN s ELSE RStrip(SubSeq(s, 1, Len(s) - 1))

\* str.strip()
Strip(s) == RStrip(LStrip(s))

RECURSIVE SplitFrom(_, _)
SplitFrom(s, cur) ==
    IF s = <<>> THEN <<cur>>
    ELSE IF s[1] = "/" THEN <<cur>> \o SplitFrom(Tail(s), <<>>)
    ELSE SplitFrom(Tail(s), Append(cur, s[1]))

\* path.split("/")
Split(s) == SplitFrom(s, <<>>)

RECURSIVE Join(_)
\* "/".join(segs)
Join(segs) ==
    IF segs = <<>> THEN <<>>
    ELSE IF Len(segs) = 1 THEN segs[1]
    ELSE segs[1] \o <<"/">> \o Join(Tail(segs))

DigitChars == <<"0","1","2","3","4","5","6","7","8","9">>

RECURSIVE NatStr(_)
NatStr(n) ==
    IF n < 10 THEN <<DigitChars[n + 1]>>
    ELSE NatStr(n \div 10) \o <<DigitChars[(n % 10) + 1]>>

\* str(v) of a value parsed from JSON
Str(v) ==
    CASE v.t = "str"  -> v.s
      [] v.t = "num"  -> NatStr(v.n)
      [] v.t = "none" -> <<"N","o","n","e">>

----------------------------------------------------------------------------
(* Texts: the event's body field and the response's body are str values   *)
(* whose content is JSON (or is not).                                      *)

EmptyText == [t |-> "text", enc |-> "empty"]
BadText == [t |-> "text", enc |-> "malformed"]
JsonText(v) == [t |-> "text", enc |-> "json", val |-> v]

\* json.dumps(obj, ensure_ascii=False, cls=DecimalEncoder); the handler only
\* ever stores str and NULL attributes, so DecimalEncoder.default is not reached
dumps(obj) == JsonText(obj)

----------------------------------------------------------------------------
(* Settings *)

CORS_ALLOW_ORIGIN == "*"
CORS_ALLOW_HEADERS == "Content-Type,Authorization"
CORS_ALLOW_METHODS == "GET,POST,PUT,DELETE,OPTIONS"

_headers ==
    [h \in {"Access-Control-Allow-Origin", "Access-Control-Allow-Methods",
            "Access-Control-Allow-Headers", "Content-Type"} |->
        CASE h = "Access-Control-Allow-Origin"  -> CORS_ALLOW_ORIGIN
          [] h = "Access-Control-Allow-Methods" -> CORS_ALLOW_METHODS
          [] h = "Access-Control-Allow-Headers" -> CORS_ALLOW_HEADERS
          [] h = "Content-Type" -> "application/json; charset=utf-8"]

\* R(code, body): a str body is passed through, anything else is dumped
R(code, body) ==
    [statusCode |-> code,
     headers |-> _headers,
     body |-> IF body.t = "text" THEN body ELSE dumps(body)]

Message(text) == PyDict("message" :> PyLit(text))

MSG_INVALID_JSON == "Invalid JSON body"
MSG_REQUIRED == "required fields missing: specify id, description, date"
MSG_DUPLICATE == "the same ID already exists"
MSG_INTERNAL == "internal server error"
MSG_NEED_JSON == "a JSON body is required"
MSG_NO_FIELDS == "no fields to update (description / date)"
MSG_ID_REQUIRED == "id required"

----------------------------------------------------------------------------
(* Request normalisation *)

GET == <<"G","E","T">>
POST == <<"P","O","S","T">>
PUT == <<"P","U","T">>
DELETE == <<"D","E","L","E","T","E">>
OPTIONS == <<"O","P","T","I","O","N","S">>
ITEMS == <<"i","t","e","m","s">>

\* event.get("httpMethod") or requestContext.http.method or "GET"
ResolvedMethod(event) == Or(Or(event.httpMethod, event.v2method), PyStr(GET)).s

\* ... uppercased
_method(event) == Upper(ResolvedMethod(event))

\* event.get("path") or event.get("rawPath") or "/"
_path(event) == Or(Or(event.path, event.rawPath), PyStr(<<"/">>)).s

_path_id(event, path) ==
    LET id_from_params == event.ppid
        seg == SelectSeq(Split(path), LAMBDA s : s # <<>>)
    IN  IF Truthy(id_from_params) THEN id_from_params
        ELSE IF Len(seg) >= 2 /\ seg[1] = ITEMS THEN PyStr(Join(Tail(seg)))
        ELSE PyNone

\* the parsed body, or the ValueError raised for text json.loads rejects
_parse_json_body(event) ==
    LET b == event.body
    IN  IF b.t = "none" \/ b.enc = "empty" THEN [ok |-> TRUE, val |-> PyDict(<<>>)]
        ELSE IF b.enc = "json" THEN [ok |-> TRUE, val |-> b.val]
        ELSE [ok |-> FALSE,
              exc |-> [kind |-> "ValueError", text |-> MSG_INVALID_JSON]]

----------------------------------------------------------------------------
(* The table (boto3 Table resource over DynamoDB).  An item is a function  *)
(* from attribute names to values; the table maps each key to its item.    *)

CharOrder == <<" ", "/">> \o DigitChars \o UpperAlphabet \o LowerAlphabet

CharRank(c) == CHOOSE k \in 1..Len(CharOrder) : CharOrder[k] = c

RECURSIVE Less(_, _)
\* the table's internal order of keys, which the scan cursor walks
Less(a, b) ==
    IF b = <<>> THEN FALSE
    ELSE IF a = <<>> THEN TRUE
    ELSE IF a[1] = b[1] THEN Less(Tail(a), Tail(b))
    ELSE CharRank(a[1]) < CharRank(b[1])

MinKey(ks) == CHOOSE k \in ks : \A o \in ks \ {k} : Less(k, o)

RECURSIVE TakeKeys(_, _)
TakeKeys(ks, n) ==
    IF n = 0 \/ ks = {} THEN <<>>
    ELSE <<MinKey(ks)>> \o TakeKeys(ks \ {MinKey(ks)}, n - 1)

\* db.scan(ExclusiveStartKey=excl): one page and the cursor for the next
scan(tbl, excl) ==
    LET after == {k \in DOMAIN tbl : excl.t = "none" \/ Less(excl.m["id"].s, k)}
        page == TakeKeys(after, PageSize)
        more == Cardinality(after) > Len(page)
    IN  [Items |-> [n \in 1..Len(page) |-> PyDict(tbl[page[n]])],
         LastEvaluatedKey |->
            IF more THEN PyDict("id" :> PyStr(page[Len(page)])) ELSE PyNone]

\* db.get_item(Key={"id": i}).get("Item")
get_item(tbl, key) == IF key.s \in DOMAIN tbl THEN PyDict(tbl[key.s]) ELSE PyNone

Written(tbl, k, item) ==
    [x \in DOMAIN tbl \cup {k} |-> IF x = k THEN item ELSE tbl[x]]

ConditionalCheckFailed ==
    [kind |-> "ClientError", code |-> "ConditionalCheckFailedException",
     text |-> "The conditional request failed"]

\* put_item without its ConditionExpression: the item is written over
put_item_unconditional(tbl, item) ==
    [tbl |-> Written(tbl, item["id"].s, item), raised |-> FALSE]

\* db.put_item(Item=item, ConditionExpression="attribute_not_exists(#k)", #k = id)
put_item(tbl, item) ==
    IF item["id"].s \in DOMAIN tbl
    THEN [tbl |-> tbl, raised |-> TRUE, exc |-> ConditionalCheckFailed]
    ELSE [tbl |-> Written(tbl, item["id"].s, item), raised |-> FALSE]

\* db.update_item(Key={"id": i}, UpdateExpression="SET ...", names, values):
\* DynamoDB edits the item under the key, or makes one when there is none
update_item(tbl, key, values) ==
    LET old == IF key.s \in DOMAIN tbl THEN tbl[key.s] ELSE ("id" :> key)
        new == [a \in DOMAIN old \cup DOMAIN values |->
                    IF a \in DOMAIN values THEN values[a] ELSE old[a]]
    IN  Written(tbl, key.s, new)

\* a delete that matches keys up to surrounding whitespace
delete_item_stripped(tbl, key) ==
    [x \in {y \in DOMAIN tbl : Strip(y) # Strip(key.s)} |-> tbl[x]]

\* db.delete_item(Key={"id": del_id})
delete_item(tbl, key) == [x \in DOMAIN tbl \ {key.s} |-> tbl[x]]

----------------------------------------------------------------------------
(* lambda_handler, cut at its calls of the table *)

Return(branch, resp) == [tag |-> "return", branch |-> branch, resp |-> resp]
Call(branch, op) == [tag |-> "call", branch |-> branch, op |-> op]

\* the two except clauses around the whole handler
TopLevel(exc) ==
    IF exc.kind = "ValueError" THEN R(400, Message(exc.text))
    ELSE R(500, Message(MSG_INTERNAL))

required == <<"id", "description", "date">>

\* the preflight answer without the max-age header
PreflightNoMaxAge == [statusCode |-> 204, headers |-> _headers, body |-> EmptyText]

Preflight ==
    [statusCode |-> 204,
     headers |-> _headers @@ ("Access-Control-Max-Age" :> "600"),
     body |-> EmptyText]

\* str(v), with an explicit null kept as None
StrOrNone(v) == IF v.t = "none" THEN PyNone ELSE PyStr(Str(v))

\* a PUT that always sets both fields, a missing one to null
UpdateValuesBoth(body) ==
    [a \in {"description", "date"} |->
        IF In(a, body) THEN StrOrNone(body.m[a]) ELSE PyNone]

\* names / values / sets of the PUT branch: attribute -> value to SET
UpdateValues(body) ==
    [a \in {k \in {"description", "date"} : In(k, body)} |-> StrOrNone(body.m[a])]

PresentAndNonBlank(body) ==
    \A n \in 1..Len(required) :
        In(required[n], body) /\ Strip(Str(body.m[required[n]])) # <<>>

\* the id stored as given, not stripped
NewItemUnstripped(body) ==
    [a \in {"id", "description", "date"} |-> PyStr(Str(body.m[a]))]

NewItem(body) ==
    [a \in {"id", "description", "date"} |->
        IF a = "id" THEN PyStr(Strip(Str(body.m["id"]))) ELSE PyStr(Str(body.m[a]))]

\* POST routed to create whether or not an id was resolved
IsCreateAnyId(m, i) == m = POST

\* if m == "POST" and not i
IsCreate(m, i) == m = POST /\ ~Truthy(i)

\* if m == "PUT" and i
IsUpdate(m, i) == m = PUT /\ Truthy(i)

\* del_id = i or (body.get("id") if isinstance(body, dict) else None)
DeleteId(i, body) == Or(i, IF IsDict(body) THEN Get(body, "id") ELSE PyNone)

Dispatch(m, i, body) ==
    IF m = OPTIONS THEN Return("preflight", Preflight)
    ELSE IF m = GET THEN
        IF Truthy(i) THEN Call("get", [name |-> "get_item", key |-> i])
        ELSE Call("list", [name |-> "scan", excl |-> PyNone, items |-> <<>>])
    ELSE IF IsCreate(m, i) THEN
        IF ~IsDict(body) \/ ~PresentAndNonBlank(body)
        THEN Return("create", R(400, Message(MSG_REQUIRED)))
        ELSE Call("create", [name |-> "put_item", item |-> NewItem(body)])
    ELSE IF IsUpdate(m, i) THEN
        IF ~IsDict(body) THEN Return("update", R(400, Message(MSG_NEED_JSON)))
        ELSE IF DOMAIN UpdateValues(body) = {}
        THEN Return("update", R(400, Message(MSG_NO_FIELDS)))
        ELSE Call("update", [name |-> "update_item", key |-> i,
                             values |-> UpdateValues(body)])
    ELSE IF m = DELETE THEN
        LET del_id == DeleteId(i, body)
        IN  IF ~Truthy(del_id) THEN Return("delete", R(400, Message(MSG_ID_REQUIRED)))
            ELSE Call("delete", [name |-> "delete_item", key |-> del_id])
    ELSE Return("unsupported", R(405, Message("unsupported")))

----------------------------------------------------------------------------
(* Calls of the table.  A call answers, or raises: botocore's ClientError, *)
(* or an exception of another class (ValueError is told apart because the *)
(* handler's first except clause catches it).                              *)

NoFault == [kind |-> "none"]
ThrottledError ==
    [kind |-> "ClientError", code |-> "ProvisionedThroughputExceededException",
     text |-> "The level of configured provisioned throughput was exceeded"]
CallValueError == [kind |-> "ValueError", text |-> "invalid value in call"]
ConnectionError == [kind |-> "Exception", text |-> "Could not connect to the endpoint URL"]

Answers == {NoFault}
Faults == {NoFault, ThrottledError, CallValueError, ConnectionError}

CauseTexts == {ThrottledError.text, CallValueError.text, ConnectionError.text,
               ConditionalCheckFailed.text}

\* the table after the call, and what the call gave: a value or an exception;
\* a call that raises leaves the table as it was
Exec(tbl, op, fault) ==
    IF fault.kind # "none" THEN [tbl |-> tbl, raised |-> TRUE, exc |-> fault]
    ELSE CASE op.name = "get_item" ->
                [tbl |-> tbl, raised |-> FALSE, val |-> get_item(tbl, op.key)]
           [] op.name = "scan" ->
                [tbl |-> tbl, raised |-> FALSE, val |-> scan(tbl, op.excl)]
           [] op.name = "put_item" -> put_item(tbl, op.item)
           [] op.name = "update_item" ->
                [tbl |-> update_item(tbl, op.key, op.values), raised |-> FALSE]
           [] op.name = "delete_item" ->
                [tbl |-> delete_item(tbl, op.key), raised |-> FALSE]

\* _scan_all's loop body after a page arrived
AfterPage(branch, op, resp) ==
    LET items == op.items \o resp.Items
        excl == resp.LastEvaluatedKey
    IN  IF ~Truthy(excl) THEN Return(branch, R(200, PyList(items)))
        ELSE Call(branch, [name |-> "scan", excl |-> excl, items |-> items])

\* no case for ConditionalCheckFailedException: every ClientError is a 500
AfterPutNoConflictCase(branch, x) ==
    IF ~x.raised THEN Return(branch, R(200, Message("created")))
    ELSE IF x.exc.kind = "ClientError" THEN Return(branch, R(500, Message(MSG_INTERNAL)))
    ELSE Return(branch, TopLevel(x.exc))

\* the duplicate reported as the validation failure
AfterPutConflictAsValidation(branch, x) ==
    IF ~x.raised THEN Return(branch, R(200, Message("created")))
    ELSE IF x.exc.kind = "ClientError" THEN
        IF x.exc.code = "ConditionalCheckFailedException"
        THEN Return(branch, R(400, Message(MSG_REQUIRED)))
        ELSE Return(branch, R(500, Message(MSG_INTERNAL)))
    ELSE Return(branch, TopLevel(x.exc))

AfterPut(branch, x) ==
    IF ~x.raised THEN Return(branch, R(200, Message("created")))
    ELSE IF x.exc.kind = "ClientError" THEN
        IF x.exc.code = "ConditionalCheckFailedException"
        THEN Return(branch, R(409, Message(MSG_DUPLICATE)))
        ELSE Return(branch, R(500, Message(MSG_INTERNAL)))
    ELSE Return(branch, TopLevel(x.exc))

AfterUpdate(branch, x) ==
    IF ~x.raised THEN Return(branch, R(200, Message("updated")))
    ELSE IF x.exc.kind = "ClientError" THEN Return(branch, R(500, Message(MSG_INTERNAL)))
    ELSE Return(branch, TopLevel(x.exc))

AfterDelete(branch, x) ==
    IF ~x.raised THEN Return(branch, R(200, Message("deleted")))
    ELSE IF x.exc.kind = "ClientError" THEN Return(branch, R(500, Message(MSG_INTERNAL)))
    ELSE Return(branch, TopLevel(x.exc))

\* the handler from the return of a table call to its next call or its return
Resume(branch, op, x) ==
    CASE op.name = "get_item" ->
            IF x.raised THEN Return(branch, TopLevel(x.exc))
            ELSE Return(branch, R(200, x.val))
      [] op.name = "scan" ->
            IF x.raised THEN Return(branch, TopLevel(x.exc))
            ELSE AfterPage(branch, op, x.val)
      [] op.name = "put_item" -> AfterPut(branch, x)
      [] op.name = "update_item" -> AfterUpdate(branch, x)
      [] op.name = "delete_item" -> AfterDelete(branch, x)

\* the handler from its entry to its first table call or its return
Begin(event) ==
    LET m == _method(event)
        p == _path(event)
        i == _path_id(event, p)
        parsed == _parse_json_body(event)
        plan == IF parsed.ok THEN Dispatch(m, i, parsed.val)
                ELSE Return("none", TopLevel(parsed.exc))
    IN  [method |-> ResolvedMethod(event), m |-> m, i |-> i,
         wellformed |-> parsed.ok,
         body |-> IF parsed.ok THEN parsed.val ELSE PyNone,
         plan |-> plan]

----------------------------------------------------------------------------
(* Events *)

Event(mf, pf, b) ==
    [httpMethod |-> mf.httpMethod, v2method |-> mf.v2method,
     path |-> pf.path, rawPath |-> pf.rawPath, ppid |-> pf.ppid, body |-> b]

V1(s) == [httpMethod |-> PyStr(s), v2method |-> PyNone]
V2(s) == [httpMethod |-> PyNone, v2method |-> PyStr(s)]

MethodFields ==
    {V1(GET), V2(<<"p","o","s","t">>), V1(PUT), V1(<<"d","e","l","e","t","e">>),
     V1(OPTIONS), V1(<<"P","A","T","C","H">>),
     [httpMethod |-> PyNone, v2method |-> PyNone]}

A == <<"a">>
PadA == <<" ", "a">>
Blank == <<" ">>

PathFields ==
    {[path |-> PyStr(<<"/">> \o ITEMS), rawPath |-> PyNone, ppid |-> PyNone],
     [path |-> PyNone, rawPath |-> PyStr(<<"/">> \o ITEMS \o <<"/", "/", "a">>),
      ppid |-> PyNone],
     [path |-> PyStr(<<"/">> \o ITEMS \o <<"/", "a">>), rawPath |-> PyNone,
      ppid |-> PyStr(PadA)],
     [path |-> PyStr(<<"/", "x", "/", "a">>), rawPath |-> PyNone, ppid |-> PyNone],
     [path |-> PyNone, rawPath |-> PyNone, ppid |-> PyNone]}

Absent == [t |-> "absent"]
Field(k, v) == IF v = Absent THEN <<>> ELSE (k :> v)

IdValues == {Absent, PyStr(A), PyStr(PadA), PyStr(Blank)}
DescriptionValues == {Absent, PyStr(<<"x">>), PyNone}
DateValues == {Absent, PyStr(<<"d">>), PyNum(7)}

DictBodies ==
    {PyDict(Field("id", a) @@ Field("description", b) @@ Field("date", c)) :
        a \in IdValues, b \in DescriptionValues, c \in DateValues}

Bodies ==
    {PyNone, BadText, JsonText(PyList(<<>>))} \cup {JsonText(d) : d \in DictBodies}

Events == {Event(mf, pf, b) : mf \in MethodFields, pf \in PathFields, b \in Bodies}

----------------------------------------------------------------------------------------------------------------------------------------
(* State machine *)

Idle == [pc |-> "idle"]

Init ==
    /\ store = <<>>
    /\ inv = [p \in Procs |-> Idle]
    /\ created = {}
    /\ posted = <<>>

Started(b) ==
    [pc |-> IF b.plan.tag = "call" THEN "call" ELSE "done",
     method |-> b.method,   \* the method as the event gave it
     m |-> b.m, i |-> b.i, wellformed |-> b.wellformed, body |-> b.body,
     branch |-> b.plan.branch,
     op |-> IF b.plan.tag = "call" THEN b.plan.op ELSE [name |-> "none"],
     calls |-> 0,       \* table calls issued so far
     pre |-> PyNone,    \* the item under the key when the last call was issued
     exc |-> NoFault,   \* what the last call raised
     resp |-> IF b.plan.tag = "call" THEN PyNone ELSE b.plan.resp]

\* the runtime enters lambda_handler(event, _context)
Invoke(p, events) ==
    /\ inv[p].pc = "idle"
    /\ \E event \in events : inv' = [inv EXCEPT ![p] = Started(Begin(event))]
    /\ UNCHANGED <<store, created, posted>>

OpKey(op) ==
    CASE op.name = "put_item" -> op.item["id"]
      [] op.name \in {"get_item", "update_item", "delete_item"} -> op.key
      [] OTHER -> PyNone

Stepped(c, tbl, x, nxt) ==
    LET seen == [c EXCEPT !.calls = @ + 1,
                          !.pre = IF OpKey(c.op).t = "str"
                                  THEN get_item(tbl, OpKey(c.op)) ELSE PyNone,
                          !.exc = IF x.raised THEN x.exc ELSE NoFault]
    IN  IF nxt.tag = "call" THEN [seen EXCEPT !.op = nxt.op]
        ELSE [seen EXCEPT !.pc = "done", !.resp = nxt.resp]

Recorded(c, nxt, set) ==
    IF nxt.tag = "return" /\ nxt.resp.statusCode = 200
    THEN CASE c.op.name = "put_item" -> set \cup {c.op.item["id"].s}
           [] c.op.name = "delete_item" -> set \ {c.op.key.s}
           [] OTHER -> set
    ELSE set

Remembered(c, nxt, f) ==
    CASE c.op.name = "put_item" /\ nxt.resp.statusCode = 200 ->
            Written(f, c.op.item["id"].s, c.body)
      [] c.op.name \in {"update_item", "delete_item"} ->
            [k \in DOMAIN f \ {c.op.key.s} |-> f[k]]
      [] OTHER -> f

\* the invocation's pending table call happens, and the handler runs on
StoreCall(p, faults) ==
    /\ inv[p].pc = "call"
    /\ \E fault \in faults :
        LET c == inv[p]
            x == Exec(store, c.op, fault)
            nxt == Resume(c.branch, c.op, x)
        IN  /\ store' = x.tbl
            /\ inv' = [inv EXCEPT ![p] = Stepped(c, store, x, nxt)]
            /\ created' = Recorded(c, nxt, created)
            /\ posted' = Remembered(c, nxt, posted)

\* the response is handed back and the slot is free again
Complete(p) ==
    /\ inv[p].pc = "done"
    /\ inv' = [inv EXCEPT ![p] = Idle]
    /\ UNCHANGED <<store, created, posted>>

\* one invocation at a time, the table answers every call
Next ==
    \E p \in {1} :
        \/ Invoke(p, Events)
        \/ StoreCall(p, Answers)
        \/ Complete(p)

Spec == Init /\ [][Next]_vars

\* one invocation at a time, a table call may raise
NextFault ==
    \E p \in {1} :
        \/ Invoke(p, Events)
        \/ StoreCall(p, Faults)
        \/ Complete(p)

SpecFault == Init /\ [][NextFault]_vars

\* requests that meet on one key when invocations overlap
PostOf(id, description) ==
    Event(V2(<<"p","o","s","t">>),
          [path |-> PyStr(<<"/">> \o ITEMS), rawPath |-> PyNone, ppid |-> PyNone],
          JsonText(PyDict(("id" :> PyStr(id)) @@ ("description" :> description)
                          @@ ("date" :> PyStr(<<"d">>)))))

OnA(method, body) ==
    Event(V1(method),
          [path |-> PyStr(<<"/">> \o ITEMS \o <<"/", "a">>), rawPath |-> PyNone,
           ppid |-> PyNone],
          body)

ConcEvents ==
    {PostOf(A, PyStr(<<"x">>)), PostOf(PadA, PyNone),
     OnA(PUT, JsonText(PyDict("description" :> PyNone))),
     OnA(DELETE, PyNone), OnA(GET, PyNone),
     Event(V1(GET), [path |-> PyNone, rawPath |-> PyNone, ppid |-> PyNone], PyNone)}

\* invocations overlap: their table calls interleave in any order
NextConc ==
    \E p \in Procs :
        \/ Invoke(p, ConcEvents)
        \/ StoreCall(p, Answers)
        \/ Complete(p)

SpecConc == Init /\ [][NextConc]_vars

----------------------------------------------------------------------------
(* Properties *)

Done(p) == inv[p].pc = "done"

\* in this step the pending call of invocation p, a call named name, happens
CallStep(p, name) ==
    /\ inv[p].pc = "call"
    /\ inv[p].op.name = name
    /\ inv'[p] # inv[p]

IsJsonOf(resp, v) == resp.body = JsonText(v)

ItemOf(resp) == resp.body.val.m

ReturnsItem(resp) ==
    /\ resp.statusCode = 200
    /\ resp.body.enc = "json"
    /\ resp.body.val.t = "dict"

NoOtherKeyTouched(k) ==
    /\ DOMAIN store' \ {k} = DOMAIN store \ {k}
    /\ \A x \in DOMAIN store \ {k} : store'[x] = store[x]

\* C1: when POSTs carrying one id overlap, the table admits one of them: a
\* put answers 200 only when the key is not in the table and 409 otherwise,
\* so once a POST has created the key (and no DELETE has removed it) every
\* other POST answers 409 and leaves the table exactly as it was.
C1_AtMostOneCreated ==
    [][\A p \in Procs : CallStep(p, "put_item") =>
        LET k == inv[p].op.item["id"].s
            code == inv'[p].resp.statusCode
        IN  /\ inv'[p].pc = "done"
            /\ code = (IF k \in DOMAIN store THEN 409 ELSE 200)
            /\ k \in created => code = 409
            /\ code = 409 => store' = store
            /\ code = 200 => k \notin created /\ NoOtherKeyTouched(k)
                             /\ store'[k] = inv[p].op.item
            /\ created' \subseteq DOMAIN store']_vars

\* two POSTs of one id are in flight together with different payloads; the
\* first answered 200, the second 409, and the table holds the first's item
C1_Witness ==
    /\ Done(1) /\ Done(2)
    /\ inv[1].branch = "create" /\ inv[2].branch = "create"
    /\ inv[1].resp.statusCode = 200 /\ inv[2].resp.statusCode = 409
    /\ inv[1].op.item["id"] = inv[2].op.item["id"]
    /\ inv[1].op.item # inv[2].op.item
    /\ inv[1].op.item["id"].s \in DOMAIN store
    /\ store[inv[1].op.item["id"].s] = inv[1].op.item

\* C2: a valid POST whose id was created by an earlier POST and not deleted
\* since answers 409, and the table (so the stored description and date) is
\* unchanged.
C2_DuplicateRejected ==
    [][\A p \in Procs :
        (CallStep(p, "put_item") /\ inv[p].op.item["id"].s \in created) =>
            /\ inv'[p].pc = "done"
            /\ inv'[p].resp = R(409, Message(MSG_DUPLICATE))
            /\ store' = store]_vars

C2_Witness ==
    /\ Done(1) /\ inv[1].branch = "create" /\ inv[1].calls = 1
    /\ inv[1].resp.statusCode = 409
    /\ inv[1].op.item["id"].s \in created
    /\ inv[1].pre = PyDict(store[inv[1].op.item["id"].s])
    /\ inv[1].pre.m["description"] # inv[1].op.item["description"]
    /\ inv[1].pre.m["date"] # inv[1].op.item["date"]

\* C3 as stated: after a POST created an item, a GET on the id as given in
\* the payload returns 200 with the payload's own description and date.
C3_Original ==
    \A p \in Procs : \A k \in DOMAIN posted :
        (/\ Done(p) /\ inv[p].branch = "get"
         /\ inv[p].i = PyStr(Str(posted[k].m["id"]))) =>
            /\ ReturnsItem(inv[p].resp)
            /\ {"description", "date"} \subseteq DOMAIN ItemOf(inv[p].resp)
            /\ ItemOf(inv[p].resp)["description"] = posted[k].m["description"]
            /\ ItemOf(inv[p].resp)["date"] = posted[k].m["date"]

\* C3: after a POST created an item, a GET on the trimmed string form of the
\* payload's id (no PUT or DELETE on it in between) returns 200 with the item
\* whose id is that trimmed string and whose description and date are the
\* string forms, str(), of the payload's description and date.
C3_PostThenGet ==
    \A p \in Procs : \A k \in DOMAIN posted :
        (/\ Done(p) /\ inv[p].branch = "get"
         /\ inv[p].i = PyStr(Strip(Str(posted[k].m["id"])))) =>
            /\ ReturnsItem(inv[p].resp)
            /\ DOMAIN ItemOf(inv[p].resp) = {"id", "description", "date"}
            /\ ItemOf(inv[p].resp)["id"] = inv[p].i
            /\ ItemOf(inv[p].resp)["description"] =
                    PyStr(Str(posted[k].m["description"]))
            /\ ItemOf(inv[p].resp)["date"] = PyStr(Str(posted[k].m["date"]))

\* the payload's id was padded and its description null: the GET on the
\* trimmed id returned the item, with description "None"
C3_Witness ==
    /\ Done(1) /\ inv[1].branch = "get" /\ inv[1].i = PyStr(A)
    /\ A \in DOMAIN posted
    /\ posted[A].m["id"] = PyStr(PadA)
    /\ posted[A].m["description"] = PyNone
    /\ ReturnsItem(inv[1].resp)
    /\ ItemOf(inv[1].resp)["description"] = PyStr(<<"N","o","n","e">>)

\* C4: a PUT sets exactly the fields named in its body (to the string form of
\* the value, or to null) and leaves the other field, the id and every other
\* item as they were; a PUT naming neither field answers 400 without a call.
C4_PartialUpdate ==
    [][\A p \in Procs :
        /\ CallStep(p, "update_item") =>
            LET c == inv[p]
                k == c.op.key.s
            IN  /\ inv'[p].pc = "done"
                /\ inv'[p].resp = R(200, Message("updated"))
                /\ k \in DOMAIN store'
                /\ store'[k]["id"] = c.i
                /\ \A a \in {"description", "date"} :
                    IF In(a, c.body)
                    THEN /\ a \in DOMAIN store'[k]
                         /\ store'[k][a] = StrOrNone(c.body.m[a])
                    ELSE IF k \in DOMAIN store /\ a \in DOMAIN store[k]
                         THEN a \in DOMAIN store'[k] /\ store'[k][a] = store[k][a]
                         ELSE a \notin DOMAIN store'[k]
                /\ NoOtherKeyTouched(k)
        /\ (/\ inv[p].pc = "idle" /\ inv'[p].pc # "idle"
            /\ inv'[p].wellformed /\ inv'[p].m = PUT /\ Truthy(inv'[p].i)
            /\ IsDict(inv'[p].body)
            /\ ~In("description", inv'[p].body) /\ ~In("date", inv'[p].body)) =>
                /\ inv'[p].pc = "done"
                /\ inv'[p].resp.statusCode = 400
                /\ inv'[p].calls = 0
                /\ store' = store]_vars

\* a PUT naming only description changed it and kept the date, next to
\* another item
C4_Witness ==
    /\ Done(1) /\ inv[1].branch = "update" /\ inv[1].calls = 1
    /\ DOMAIN inv[1].body.m = {"description"}
    /\ inv[1].pre.t = "dict"
    /\ {"description", "date"} \subseteq DOMAIN inv[1].pre.m
    /\ store[inv[1].i.s]["date"] = inv[1].pre.m["date"]
    /\ store[inv[1].i.s]["description"] # inv[1].pre.m["description"]
    /\ Cardinality(DOMAIN store) = 2

\* C5: a DELETE takes the path id, else the body's id; its call answers 200
\* "deleted" whether or not the key is in the table, afterwards the key is
\* not in the table, every other item is as before, and a DELETE of a key
\* that is not there leaves the table unchanged.
C5_DeleteIdempotent ==
    [][\A p \in Procs :
        /\ CallStep(p, "delete_item") =>
            LET k == inv[p].op.key.s
            IN  /\ inv'[p].pc = "done"
                /\ inv'[p].resp = R(200, Message("deleted"))
                /\ k \notin DOMAIN store'
                /\ NoOtherKeyTouched(k)
                /\ k \notin DOMAIN store => store' = store
        /\ (/\ inv[p].pc = "idle" /\ inv'[p].pc # "idle"
            /\ inv'[p].wellformed /\ inv'[p].m = DELETE) =>
                LET i == inv'[p].i
                    b == inv'[p].body
                    given == IF IsDict(b) /\ In("id", b) THEN b.m["id"] ELSE PyNone
                IN  IF Truthy(i) \/ Truthy(given)
                    THEN /\ inv'[p].pc = "call"
                         /\ inv'[p].op.name = "delete_item"
                         /\ inv'[p].op.key = (IF Truthy(i) THEN i ELSE given)
                    ELSE inv'[p].pc = "done" /\ inv'[p].resp.statusCode = 400]_vars

\* a DELETE whose id came from the body, of a key that was not in the table,
\* answered 200 "deleted" while another item stayed
C5_Witness ==
    /\ Done(1) /\ inv[1].branch = "delete" /\ inv[1].calls = 1
    /\ ~Truthy(inv[1].i)
    /\ inv[1].pre = PyNone
    /\ inv[1].resp = R(200, Message("deleted"))
    /\ DOMAIN store # {}

CorsHeaders ==
    {"Access-Control-Allow-Origin", "Access-Control-Allow-Methods",
     "Access-Control-Allow-Headers", "Access-Control-Max-Age"}

IsPreflight(c) ==
    /\ c.pc = "done"
    /\ c.resp.statusCode = 204
    /\ c.resp.body = EmptyText
    /\ CorsHeaders \subseteq DOMAIN c.resp.headers
    /\ c.calls = 0

\* C6 as stated: every request whose method resolves to OPTIONS, whatever
\* its path, id or body, gets 204, an empty body, the CORS headers with
\* Access-Control-Max-Age, and issues no table call.
C6_Original ==
    \A p \in Procs : (inv[p].pc # "idle" /\ inv[p].m = OPTIONS) => IsPreflight(inv[p])

\* C6: every request whose method resolves to OPTIONS and whose body is
\* absent, empty or parses as JSON gets 204, an empty body, the CORS headers
\* with Access-Control-Max-Age, and issues no table call; with a body that is
\* not JSON it gets 400 "Invalid JSON body", again without a table call.
C6_Preflight ==
    \A p \in Procs : (inv[p].pc # "idle" /\ inv[p].m = OPTIONS) =>
        IF inv[p].wellformed THEN IsPreflight(inv[p])
        ELSE /\ inv[p].pc = "done"
             /\ inv[p].resp = R(400, Message(MSG_INVALID_JSON))
             /\ inv[p].calls = 0

\* OPTIONS with a resolved id and a JSON object as body, on a table with items
C6_Witness ==
    /\ Done(1) /\ inv[1].m = OPTIONS /\ Truthy(inv[1].i)
    /\ inv[1].wellformed /\ IsDict(inv[1].body) /\ DOMAIN inv[1].body.m # {}
    /\ inv[1].resp.statusCode = 204
    /\ DOMAIN store # {}

ValidationMessages ==
    {MSG_INVALID_JSON, MSG_REQUIRED, MSG_NEED_JSON, MSG_NO_FIELDS, MSG_ID_REQUIRED,
     "unsupported"}

\* the handler's own client-error answers: 400 for a body that is not JSON,
\* for missing or blank POST fields, for a PUT without a JSON object or
\* without a field to update, for a DELETE without an id; 405 for the rest
IsClientError(resp) ==
    /\ resp.statusCode \in {400, 405}
    /\ \E t \in ValidationMessages : IsJsonOf(resp, Message(t))

\* C7: a request that ends in one of the handler's client-error answers has
\* issued no table call.
C7_ValidationFirst ==
    \A p \in Procs : (Done(p) /\ IsClientError(inv[p].resp)) => inv[p].calls = 0

\* a POST with a blank id was refused on a table that holds items
C7_Witness ==
    /\ Done(1) /\ inv[1].branch = "create"
    /\ inv[1].resp = R(400, Message(MSG_REQUIRED))
    /\ IsDict(inv[1].body) /\ In("id", inv[1].body)
    /\ inv[1].body.m["id"] = PyStr(Blank)
    /\ inv[1].calls = 0
    /\ DOMAIN store # {}

\* the last table call raised and the operation has no except clause for it
Unhandled(c) ==
    /\ c.exc.kind # "none"
    /\ c.op.name \in {"get_item", "scan"} \/ c.exc.kind # "ClientError"

\* C8 as stated: an exception of any class that the operation does not
\* handle ends in 500 with the generic message, never with the cause's text.
C8_Original ==
    \A p \in Procs : (Done(p) /\ Unhandled(inv[p])) =>
        /\ inv[p].resp = R(500, Message(MSG_INTERNAL))
        /\ \A t \in CauseTexts : ~IsJsonOf(inv[p].resp, Message(t))

\* C9 as stated: every item in the table was created by a POST that answered
\* 200 (and not deleted since) and carries id, description and date.
C9_Original ==
    \A k \in DOMAIN store :
        /\ k \in created
        /\ DOMAIN store[k] = {"id", "description", "date"}

\* method is the word name in any mix of upper and lower case
Spells(method, name) ==
    /\ Len(method) = Len(name)
    /\ \A n \in 1..Len(name) :
        \/ method[n] = name[n]
        \/ \E k \in 1..26 : UpperAlphabet[k] = name[n] /\ LowerAlphabet[k] = method[n]

\* the routing table of the specification
Route(method, hasId) ==
    CASE Spells(method, OPTIONS) -> "preflight"
      [] Spells(method, GET) /\ hasId -> "get"
      [] Spells(method, GET) /\ ~hasId -> "list"
      [] Spells(method, POST) /\ ~hasId -> "create"
      [] Spells(method, PUT) /\ hasId -> "update"
      [] Spells(method, DELETE) -> "delete"
      [] OTHER -> "unsupported"

\* C10: for a request with a well-formed body the branch taken is the one
\* the routing table gives for (method, id resolved or not); the answer is
\* 405 "unsupported" exactly on the unsupported branch, i.e. POST with an id,
\* PUT without one and every other method, and then no table call was issued.
C10_Routing ==
    \A p \in Procs : (inv[p].pc # "idle" /\ inv[p].wellformed) =>
        /\ inv[p].branch = Route(inv[p].method, Truthy(inv[p].i))
        /\ inv[p].branch = "unsupported" <=>
                \/ Spells(inv[p].method, POST) /\ Truthy(inv[p].i)
                \/ Spells(inv[p].method, PUT) /\ ~Truthy(inv[p].i)
                \/ \A name \in {OPTIONS, GET, POST, PUT, DELETE} :
                        ~Spells(inv[p].method, name)
        /\ Done(p) =>
            /\ inv[p].resp.statusCode = 405 <=> inv[p].branch = "unsupported"
            /\ inv[p].resp.statusCode = 405 =>
                    /\ inv[p].resp = R(405, Message("unsupported"))
                    /\ inv[p].calls = 0

\* a POST, spelled in lower case, that carries an id was answered 405 on a
\* table that holds items
C10_Witness ==
    /\ Done(1) /\ inv[1].wellformed
    /\ inv[1].method = <<"p","o","s","t">> /\ Truthy(inv[1].i)
    /\ inv[1].resp.statusCode = 405
    /\ DOMAIN store # {}

====
